---- MODULE Spec2Model ----
(***************************************************************************)
(* Structline (src/main.py): a one-line input widget that creates or       *)
(* patches a structure member in the host's type database.                 *)
(*                                                                         *)
(* Strings are sequences of one-character strings, so that tokenising,     *)
(* suffix stripping, hexadecimal parsing and formatting are computed the   *)
(* way the Python code computes them.  The host's type database is a       *)
(* function from structure names to sets of members; the host calls the    *)
(* widget makes (get_struc_id, get_member_name, get_member_offset,         *)
(* del_struc_member, add_struc, add_udm, expand_struc, get_size) are       *)
(* operators on it, each modelled at the call site that uses it.           *)
(***************************************************************************)
EXTENDS Integers, Sequences, FiniteSets, TLC

\* ------------------------------------------------------------ constants

HIST_LEN == 15

\* How many times the widget may be opened in one run of the model: on a
\* database without saved history, and on one whose saved history is full.
MaxSessions == 2

MaxFullSessions == 1

\* ------------------------------------------------------------ characters

Digits == {"0", "1", "2", "3", "4", "5", "6", "7", "8", "9"}

LowerLetters ==
    {"a", "b", "c", "d", "e", "f", "g", "h", "i", "j", "k", "l", "m",
     "n", "o", "p", "q", "r", "s", "t", "u", "v", "w", "x", "y", "z"}

UpperLetters ==
    {"A", "B", "C", "D", "E", "F", "G", "H", "I", "J", "K", "L", "M",
     "N", "O", "P", "Q", "R", "S", "T", "U", "V", "W", "X", "Y", "Z"}

Whitespace == {" ", "\t"}

HexUpperDigits ==
    <<"0", "1", "2", "3", "4", "5", "6", "7", "8", "9", "A", "B", "C", "D", "E", "F">>

HexLowerDigits ==
    <<"0", "1", "2", "3", "4", "5", "6", "7", "8", "9", "a", "b", "c", "d", "e", "f">>

HexDigitSet == {HexUpperDigits[i] : i \in 1..16} \cup {HexLowerDigits[i] : i \in 1..16}

HexValues ==
    [c \in HexDigitSet |->
        (CHOOSE i \in 1..16 : HexUpperDigits[i] = c \/ HexLowerDigits[i] = c) - 1]

IsHexDigit(c) == c \in HexDigitSet

HexDigitValue(c) == HexValues[c]

IdentStart == LowerLetters \cup UpperLetters \cup {"_"}

IdentChars == IdentStart \cup Digits

\* ------------------------------------------------------------ str methods

\* str.rstrip(chars): drop the trailing characters that are in chars.
RECURSIVE rstrip(_, _)
rstrip(s, chars) ==
    IF Len(s) > 0 /\ s[Len(s)] \in chars
    THEN rstrip(SubSeq(s, 1, Len(s) - 1), chars)
    ELSE s

\* str.lstrip(chars)
RECURSIVE lstrip(_, _)
lstrip(s, chars) ==
    IF Len(s) > 0 /\ s[1] \in chars THEN lstrip(Tail(s), chars) ELSE s

\* str.strip()
strip(s) == rstrip(lstrip(s, Whitespace), Whitespace)

\* str.replace(c, ""): every occurrence of the character c removed.
RECURSIVE removeChar(_, _)
removeChar(s, c) ==
    IF Len(s) = 0 THEN <<>>
    ELSE IF Head(s) = c THEN removeChar(Tail(s), c)
    ELSE <<Head(s)>> \o removeChar(Tail(s), c)

\* str.split(): the maximal runs of non-whitespace characters, in order.
RECURSIVE splitFrom(_, _, _)
splitFrom(s, cur, acc) ==
    IF Len(s) = 0
    THEN IF Len(cur) > 0 THEN Append(acc, cur) ELSE acc
    ELSE IF Head(s) \in Whitespace
    THEN splitFrom(Tail(s), <<>>, IF Len(cur) > 0 THEN Append(acc, cur) ELSE acc)
    ELSE splitFrom(Tail(s), Append(cur, Head(s)), acc)

split(s) == splitFrom(s, <<>>, <<>>)

\* str.startswith(prefix)
startswith(s, prefix) ==
    Len(s) >= Len(prefix) /\ SubSeq(s, 1, Len(prefix)) = prefix

\* "needle in text" for two strings
contains(text, needle) ==
    \E i \in 0..(Len(text) - Len(needle)) :
        SubSeq(text, i + 1, i + Len(needle)) = needle

\* ------------------------------------------------------------ int(s, 16)

\* The digits part of an integer literal: hexadecimal digits, with single
\* underscores allowed between digits.
validDigits(s) ==
    /\ Len(s) > 0
    /\ \A i \in 1..Len(s) : IsHexDigit(s[i]) \/ s[i] = "_"
    /\ s[1] # "_"
    /\ s[Len(s)] # "_"
    /\ \A i \in 1..(Len(s) - 1) : ~(s[i] = "_" /\ s[i + 1] = "_")

RECURSIVE digitsValue(_, _)
digitsValue(s, acc) ==
    IF Len(s) = 0 THEN acc
    ELSE IF Head(s) = "_" THEN digitsValue(Tail(s), acc)
    ELSE digitsValue(Tail(s), acc * 16 + HexDigitValue(Head(s)))

\* int(s, 16): an optional sign, an optional 0x / 0X prefix (which may be
\* followed by one underscore), then the digits.  ok is FALSE where Python
\* raises ValueError.
intBase16(s) ==
    LET signed   == Len(s) > 0 /\ s[1] \in {"+", "-"}
        negative == Len(s) > 0 /\ s[1] = "-"
        unsigned == IF signed THEN Tail(s) ELSE s
        prefixed == Len(unsigned) >= 2 /\ unsigned[1] = "0" /\ unsigned[2] \in {"x", "X"}
        afterPfx == IF prefixed THEN SubSeq(unsigned, 3, Len(unsigned)) ELSE unsigned
        digits   == IF prefixed /\ Len(afterPfx) > 0 /\ afterPfx[1] = "_"
                    THEN Tail(afterPfx) ELSE afterPfx
        ok       == validDigits(digits)
        mag      == IF ok THEN digitsValue(digits, 0) ELSE 0
    IN  [ok |-> ok, val |-> IF negative THEN 0 - mag ELSE mag]

\* ------------------------------------------------------------ format

RECURSIVE hexUpperNat(_)
hexUpperNat(n) ==
    IF n < 16 THEN <<HexUpperDigits[n + 1]>>
    ELSE hexUpperNat(n \div 16) \o <<HexUpperDigits[(n % 16) + 1]>>

\* "{:X}".format(n)
formatX(n) == IF n < 0 THEN <<"-">> \o hexUpperNat(0 - n) ELSE hexUpperNat(n)

RECURSIVE zeros(_)
zeros(k) == IF k <= 0 THEN <<>> ELSE <<"0">> \o zeros(k - 1)

\* "{:08X}".format(n): zero-padded after the sign to a width of 8.
format08X(n) ==
    IF n < 0
    THEN <<"-">> \o zeros(7 - Len(hexUpperNat(0 - n))) \o hexUpperNat(0 - n)
    ELSE zeros(8 - Len(hexUpperNat(n))) \o hexUpperNat(n)

\* "{}".format(i) for a counter i >= 1
RECURSIVE decimal(_)
decimal(n) ==
    IF n < 10 THEN <<HexUpperDigits[n + 1]>>
    ELSE decimal(n \div 10) \o <<HexUpperDigits[(n % 10) + 1]>>

\* ------------------------------------------------------------ parsing

\* parseOffset (main.py 32-35): strip trailing "h", then trailing "L", then
\* trailing "u" characters, and read the rest as a base-16 integer literal.
parseOffset(arg) ==
    intBase16(rstrip(rstrip(rstrip(arg, {"h"}), {"L"}), {"u"}))

\* isValidMemberName (main.py 99-100): ^[a-zA-Z_][a-zA-Z0-9_]*$
isValidMemberName(name) ==
    /\ Len(name) > 0
    /\ name[1] \in IdentStart
    /\ \A i \in 1..Len(name) : name[i] \in IdentChars

\* ------------------------------------------------------------ host types

T_BYTE  == <<"_", "B", "Y", "T", "E">>
T_WORD  == <<"_", "W", "O", "R", "D">>
T_DWORD == <<"_", "D", "W", "O", "R", "D">>
T_QWORD == <<"_", "Q", "W", "O", "R", "D">>

\* The scalar types of DECOMP_TYPES the host's parser knows, with the size
\* the host gives each.
hostTypeSize(type_name) ==
    CASE type_name = T_BYTE  -> 1
      [] type_name = T_WORD  -> 2
      [] type_name = T_DWORD -> 4
      [] type_name = T_QWORD -> 8
      [] OTHER               -> 0

hostKnowsType(type_name) == type_name \in {T_BYTE, T_WORD, T_DWORD, T_QWORD}

\* getType (main.py 93-96): the parsed type; an empty tinfo_t (which prints
\* as the empty string) when the name does not parse.
getType(type_name) ==
    IF hostKnowsType(type_name)
    THEN [str |-> type_name, size |-> hostTypeSize(type_name)]
    ELSE [str |-> <<>>, size |-> 0]

\* isTypeValid (main.py 103-104)
isTypeValid(type_name) == Len(getType(type_name).str) > 0

\* ------------------------------------------------------------ host database
\* db is a function: structure name -> set of members [name, off, type].

BADADDR == <<"BADADDR">>
None == <<>>

memberEnd(m) == m.off + hostTypeSize(m.type)

\* idc.get_struc_id(name)
get_struc_id(db, name) == IF name \in DOMAIN db THEN name ELSE BADADDR

\* the member of the structure that holds byte offset off, if any
membersAt(db, struc_id, off) ==
    IF struc_id \in DOMAIN db
    THEN {m \in db[struc_id] : m.off <= off /\ off < memberEnd(m)}
    ELSE {}

\* idc.get_member_name(sid, off): the name of the member that holds the byte
\* at off, None when no member does or the structure does not exist.
get_member_name(db, struc_id, off) ==
    IF membersAt(db, struc_id, off) = {} THEN None
    ELSE (CHOOSE m \in membersAt(db, struc_id, off) : TRUE).name

\* idc.get_member_offset(sid, name): -1 when the structure has no such member.
get_member_offset(db, struc_id, mem_name) ==
    IF struc_id \in DOMAIN db /\ \E m \in db[struc_id] : m.name = mem_name
    THEN (CHOOSE m \in db[struc_id] : m.name = mem_name).off
    ELSE -1

\* idc.del_struc_member(sid, off): delete the member that holds byte off.
del_struc_member(db, struc_id, off) ==
    IF struc_id \in DOMAIN db
    THEN [db EXCEPT ![struc_id] = @ \ membersAt(db, struc_id, off)]
    ELSE db

\* idc.add_struc(-1, name, 0): a new, empty structure.
add_struc(db, name) ==
    [n \in DOMAIN db \cup {name} |-> IF n \in DOMAIN db THEN db[n] ELSE {}]

\* tinfo_t.get_size() of a structure: the end of its last member.
RECURSIVE maxEnd(_)
maxEnd(members) ==
    IF members = {} THEN 0
    ELSE LET m == CHOOSE x \in members : TRUE
             r == maxEnd(members \ {m})
         IN  IF memberEnd(m) > r THEN memberEnd(m) ELSE r

get_size(db, struc_name) == maxEnd(db[struc_name])

\* tinfo_t.add_udm(name, type, offset in bits)
add_udm(db, struc_name, mem_name, mem_type, bit_offset) ==
    [db EXCEPT ![struc_name] =
        @ \cup {[name |-> mem_name, off |-> bit_offset \div 8, type |-> mem_type]}]

\* idc.expand_struc(sid, offset, delta): delta bytes inserted at offset; the
\* members that start at or after offset move up by delta.
expand_struc(db, struc_id, offset, delta) ==
    [db EXCEPT ![struc_id] =
        {IF m.off >= offset THEN [m EXCEPT !.off = @ + delta] ELSE m : m \in @}]

\* ------------------------------------------------------------ helpers

\* addSuffixIfTaken (main.py 38-43)
RECURSIVE addSuffixLoop(_, _, _, _)
addSuffixLoop(db, struc_id, mem_name, i) ==
    IF get_member_offset(db, struc_id, mem_name) # -1
    THEN addSuffixLoop(db, struc_id, mem_name \o <<"_">> \o decimal(i), i + 1)
    ELSE mem_name

addSuffixIfTaken(db, struc_id, mem_name) == addSuffixLoop(db, struc_id, mem_name, 1)

GAP == <<"g", "a", "p">>

\* getOverlappedMemberNames (main.py 107-121): the loop over i in range(size).
\* names is the list of (roff, name) pairs built so far.
RECURSIVE overlapLoop(_, _, _, _, _, _, _)
overlapLoop(db, struc_id, off, size, i, names, got_roff) ==
    IF i >= size THEN names
    ELSE LET name  == get_member_name(db, struc_id, off + i)
             added == {names[k][2] : k \in 1..Len(names)}
         IN  IF name # None /\ name \notin added /\ ~startswith(name, GAP)
             THEN LET roff == IF ~got_roff
                              THEN get_member_offset(db, struc_id, name)
                              ELSE off + i
                  IN  overlapLoop(db, struc_id, off, size, i + 1,
                                  Append(names, <<roff, name>>), TRUE)
             ELSE overlapLoop(db, struc_id, off, size, i + 1, names, got_roff)

getOverlappedMemberNames(db, struc_name, off, size) ==
    overlapLoop(db, get_struc_id(db, struc_name), off, size, 0, <<>>, FALSE)

\* ------------------------------------------------------------ inputs

SP == <<" ">>

FIELD_ == <<"f", "i", "e", "l", "d", "_">>

RECURSIVE joinTokens(_)
joinTokens(toks) ==
    IF Len(toks) = 0 THEN <<>>
    ELSE IF Len(toks) = 1 THEN toks[1]
    ELSE toks[1] \o SP \o joinTokens(Tail(toks))

N_fld     == <<"f", "l", "d">>
N_gap_a   == <<"g", "a", "p", "_", "a">>
N_field_0 == FIELD_ \o <<"0">>

\* The lines the analyst types.
Texts ==
    { joinTokens(<< <<"S">>, <<"0">> >>),                         \* S 0
      joinTokens(<< <<"S">>, <<"3">>, T_DWORD >>),                \* S 3 _DWORD
      joinTokens(<< <<"S">>, <<"2">>, T_WORD, N_fld >>),          \* S 2 _WORD fld
      joinTokens(<< <<"S">>, <<"6", "h">>, T_WORD \o <<",">>, N_gap_a >>),
                                                                  \* S 6h _WORD, gap_a
      joinTokens(<< <<"S">>, <<"-", "1">> >>),                    \* S -1
      joinTokens(<< <<"S">>, <<"0">>, <<"x", "x">> >>),           \* S 0 xx
      joinTokens(<< <<"S">>, <<"0">>, T_BYTE, <<"1", "x">> >>),   \* S 0 _BYTE 1x
      joinTokens(<< <<"S">>, <<"0">>, T_BYTE, <<"a">>, <<"b">> >>), \* S 0 _BYTE a b
      joinTokens(<< <<"S">>, <<"4", "h", "L">> >>),               \* S 4hL
      <<" ", " ">> \o joinTokens(<< <<"S">>, <<>>, <<"0", "x", "C", "u", "L">>, T_WORD >>)
          \o SP,                                                  \*   S  0xCuL _WORD
      joinTokens(<< <<"T">>, <<"1", "a">> >>) }                   \* T 1a

\* What the cursor of the host points at when the widget is opened.
CursorTokens == { <<"S">>, <<"0", "4">> }

\* The databases the widget is opened on: an empty one, and one that holds
\* S { _DWORD field_0 @0; _WORD fld @4 }.
SampleDb ==
    [n \in {<<"S">>} |->
        { [name |-> N_field_0, off |-> 0, type |-> T_DWORD],
          [name |-> N_fld,     off |-> 4, type |-> T_WORD] }]

EmptyDb == [n \in {} |-> {}]

\* A saved history of HIST_LEN lines, as HIST_LEN commits leave it:
\* "A E", "A D", ..., "A 0".
FullHistory ==
    [k \in 1..HIST_LEN |-> joinTokens(<< <<"A">>, formatX(HIST_LEN - k) >>)]

\* text.replace(",", "").split() (main.py 338)
tokenize(txt) == split(removeChar(txt, ","))

\* The lines the input field holds in the runs explored here, tokenised once.
KnownLines ==
    Texts \cup {FullHistory[k] : k \in 1..HIST_LEN}
          \cup {<<>>}
          \cup {n \o SP : n \in {<<"S">>, <<"T">>, <<"A">>}}
          \cup {n \o SP \o <<"4">> \o SP : n \in {<<"S">>, <<"T">>, <<"A">>}}

KnownTokens == [t \in KnownLines |-> tokenize(t)]

tokensOf(txt) == IF txt \in KnownLines THEN KnownTokens[txt] ELSE tokenize(txt)

\* ------------------------------------------------------------ history

\* loadCurrHistory with the slice one line longer: [:HIST_LEN].
loadCurrHistory_keepAll(saved) ==
    SubSeq(saved, 1, IF Len(saved) < HIST_LEN THEN Len(saved) ELSE HIST_LEN)

\* History.__init__ (main.py 135): the lines kept from the saved history.
loadCurrHistory(saved) ==
    SubSeq(saved, 1, IF Len(saved) < HIST_LEN - 1 THEN Len(saved) ELSE HIST_LEN - 1)

\* History.cleanHistory (main.py 137-142): each line once, first occurrence kept.
RECURSIVE cleanLoop(_, _)
cleanLoop(lines, history) ==
    IF Len(lines) = 0 THEN history
    ELSE IF Len(history) = 0 \/ \A k \in 1..Len(history) : history[k] # Head(lines)
    THEN cleanLoop(Tail(lines), Append(history, Head(lines)))
    ELSE cleanLoop(Tail(lines), history)

cleanHistory(currHistory) == cleanLoop(currHistory, <<>>)

\* History.saveHistory (main.py 144-154): what the file holds for this
\* database afterwards; nothing is written when the cleaned list is empty.
saveHistory(currHistory, saved) ==
    IF Len(cleanHistory(currHistory)) = 0 THEN saved ELSE cleanHistory(currHistory)

\* ------------------------------------------------------------ validation

INVALID      == "INVALID"
VALID        == "VALID"
ALERT_MEMBER == "ALERT_MEMBER"
ALERT_STRUCT == "ALERT_STRUCT"

\* Styles.HINT.format(roff, name) without the markup: the offset as eight
\* upper-case hexadecimal digits, then the member's name.
hintLine(var) == format08X(var[1]) \o <<" ", " ", " ", " ">> \o var[2]

\* newMemberType without the assignment of "_BYTE" for a two-token line.
newMemberType_stale(tokens, oldType) ==
    IF Len(tokens) = 2 THEN oldType
    ELSE IF ~isTypeValid(tokens[3]) THEN oldType
    ELSE tokens[3]

\* validateParseInput, main.py 359-366: the member type after the type token
\* was looked at; the old value stays when the token is no valid type.
newMemberType(tokens, oldType) ==
    IF Len(tokens) = 2 THEN T_BYTE
    ELSE IF ~isTypeValid(tokens[3]) THEN oldType
    ELSE tokens[3]

\* validateParseInput, main.py 373-379
newMemberName(tokens, mem_off, oldName) ==
    IF Len(tokens) = 4
    THEN IF isValidMemberName(tokens[4]) THEN tokens[4] ELSE oldName
    ELSE FIELD_ \o formatX(mem_off)

\* validateParseInput, main.py 367-381: the overlap check, the name token
\* and the final assignments.  st is the status lines 355-363 left.
checkOverlapAndName(tokens, mem_off, new_struct, atOffset, st, memberType, overlapped, w) ==
    [status          |-> IF Len(tokens) = 4 /\ ~isValidMemberName(tokens[4]) THEN INVALID
                         ELSE IF Len(overlapped) > 0 THEN ALERT_MEMBER
                         ELSE st,
     overlapsMembers |-> atOffset \/ Len(overlapped) > 0,
     structName      |-> tokens[1],
     memberOff       |-> mem_off,
     memberType      |-> memberType,
     memberName      |-> newMemberName(tokens, mem_off, w.memberName),
     hintText        |-> IF Len(overlapped) > 0
                         THEN [k \in 1..Len(overlapped) |-> hintLine(overlapped[k])]
                         ELSE w.hintText,
     lastStruct      |-> w.lastStruct]

\* validateParseInput, main.py 355-368: the status after the structure and
\* the type token were looked at, and the call of getOverlappedMemberNames,
\* which is made only when the type is valid.
checkType(tokens, mem_off, new_struct, atOffset, has_valid_type, memberType, db, w) ==
    checkOverlapAndName(
        tokens, mem_off, new_struct, atOffset,
        IF ~has_valid_type THEN INVALID
        ELSE IF new_struct THEN ALERT_STRUCT
        ELSE VALID,
        memberType,
        IF has_valid_type
        THEN getOverlappedMemberNames(db, tokens[1], mem_off, getType(memberType).size)
        ELSE <<>>,
        w)

\* validateParseInput, main.py 352-354: overlapsMembers from the member that
\* holds the byte at mem_off.
checkOffset(tokens, mem_off, new_struct, mem_name, db, w) ==
    checkType(tokens, mem_off, new_struct,
              ~new_struct /\ mem_name # None /\ ~startswith(mem_name, GAP),
              Len(tokens) = 2 \/ isTypeValid(tokens[3]),
              newMemberType(tokens, w.memberType), db, w)

\* validateParseInput, main.py 341-351: the token count, _LSTRUC.name and the
\* offset token.  tokens[1] of a one-token line raises IndexError inside the
\* try, which returns like an offset that does not parse.
checkTokens(tokens, new_struct, db, w) ==
    IF ~(1 <= Len(tokens) /\ Len(tokens) <= 4) THEN w
    ELSE IF Len(tokens) < 2 \/ ~parseOffset(tokens[2]).ok
    THEN [w EXCEPT !.lastStruct = IF ~new_struct THEN tokens[1] ELSE @]
    ELSE checkOffset(tokens, parseOffset(tokens[2]).val, new_struct,
                     get_member_name(db, get_struc_id(db, tokens[1]),
                                     parseOffset(tokens[2]).val),
                     db,
                     [w EXCEPT !.lastStruct = IF ~new_struct THEN tokens[1] ELSE @])

\* validateParseInput (main.py 331-381).  w holds the widget's fields and
\* _LSTRUC.name before the call; the result holds them after it.
validateTokens(tokens, db, w) ==
    checkTokens(tokens,
                Len(tokens) > 0 /\ get_struc_id(db, tokens[1]) = BADADDR,
                db,
                [w EXCEPT !.status = INVALID, !.overlapsMembers = FALSE])

validateParseInput(txt, db, w) == validateTokens(tokensOf(txt), db, w)

\* ------------------------------------------------------------ commit

\* commitAllowed without the test of the status.
commitAllowed_always(st) == TRUE

\* eventFilter, main.py 425: Return commits unless the status is INVALID.
commitAllowed(st) == st # INVALID

\* delOffsets with the loop running one byte too far.
delOffsets_oneMore(off, size) == {off + i : i \in 0..size}

\* _addStrucMember, main.py 305-306: the offsets handed to del_struc_member.
delOffsets(off, size) == {off + i : i \in 0..(size - 1)}

RECURSIVE delMembers(_, _, _)
delMembers(db, struc_id, offsets) ==
    IF offsets = {} THEN db
    ELSE LET o == CHOOSE x \in offsets : TRUE
         IN  delMembers(del_struc_member(db, struc_id, o), struc_id, offsets \ {o})

\* _addStrucMember, main.py 307-315: the member is added at the end of the
\* structure and moved up when its offset lies beyond the end.
addMember(db1, w, mem_name, struc_size) ==
    IF w.memberOff > struc_size
    THEN expand_struc(
             add_udm(db1, w.structName, mem_name, w.memberType, struc_size * 8),
             w.structName, struc_size, w.memberOff - struc_size)
    ELSE add_udm(db1, w.structName, mem_name, w.memberType, w.memberOff * 8)

\* _addStrucMember, main.py 301-306: the structure is created, or the bytes
\* the new member takes are cleared.
prepareStruct(db, w) ==
    IF get_struc_id(db, w.structName) = BADADDR
    THEN add_struc(db, w.structName)
    ELSE delMembers(db, w.structName,
                    delOffsets(w.memberOff, getType(w.memberType).size))

addMemberTo(db1, w) ==
    addMember(db1, w, addSuffixIfTaken(db1, w.structName, w.memberName),
              get_size(db1, w.structName))

\* _addStrucMember (main.py 299-316) on the database.  The host's offsets
\* are unsigned: what add_udm does with a negative one is not fixed by the
\* code, so hostRejects chooses between the call failing, which leaves the
\* structure as lines 301-306 made it, and the call going through with the
\* offset as given.  The handler runs as a host action (main.py 274-297), so
\* a failure does not reach eventFilter.
addStrucMember(db, w, hostRejects) ==
    IF w.memberOff < 0 /\ hostRejects
    THEN prepareStruct(db, w)
    ELSE addMemberTo(prepareStruct(db, w), w)

\* ------------------------------------------------------------ state

VARIABLES
    db,              \* the host's structures
    savedHistory,    \* the history file's lines for this database
    lastStruct,      \* _LSTRUC.name ("" and None are both <<>>)
    isOpen,          \* the widget is shown
    text,            \* inputField.text()
    historyLines,    \* SQWidget.historyLines, the same list as History.currHistory
    historyIdx,
    status,
    overlapsMembers,
    structName,
    memberOff,
    memberType,
    memberName,
    hintText,        \* the lines of hint.text()
    hintShown,       \* the hint label is visible
    sessions,        \* how many times the widget was opened
    lastEvent,       \* the event handled last
    dbAtOpen,        \* db when the widget was opened last
    savedAtOpen      \* savedHistory when the widget was opened last

vars ==
    <<db, savedHistory, lastStruct, isOpen, text, historyLines, historyIdx, status,
      overlapsMembers, structName, memberOff, memberType, memberName, hintText,
      hintShown, sessions, lastEvent, dbAtOpen, savedAtOpen>>

fields ==
    [status |-> status, overlapsMembers |-> overlapsMembers, structName |-> structName,
     memberOff |-> memberOff, memberType |-> memberType, memberName |-> memberName,
     hintText |-> hintText, lastStruct |-> lastStruct]

\* A fresh SQWidget: the annotated attributes hold nothing yet, the hint
\* label is empty.
freshFields(lstruc) ==
    [status |-> INVALID, overlapsMembers |-> FALSE, structName |-> <<>>,
     memberOff |-> 0, memberType |-> <<>>, memberName |-> <<>>,
     hintText |-> <<>>, lastStruct |-> lstruc]

InitWidget ==
    /\ lastStruct = <<>>
    /\ isOpen = FALSE
    /\ text = <<>>
    /\ historyLines = <<>>
    /\ historyIdx = 0
    /\ status = INVALID
    /\ overlapsMembers = FALSE
    /\ structName = <<>>
    /\ memberOff = 0
    /\ memberType = <<>>
    /\ memberName = <<>>
    /\ hintText = <<>>
    /\ hintShown = FALSE
    /\ sessions = 0
    /\ lastEvent = "none"
    /\ dbAtOpen = db
    /\ savedAtOpen = savedHistory

\* The plugin is loaded, no widget was opened yet, the history file holds
\* nothing for this database.
Init ==
    /\ db \in {EmptyDb, SampleDb}
    /\ savedHistory = <<>>
    /\ InitWidget

\* The same, on a database whose saved history is full.
InitFull ==
    /\ db = EmptyDb
    /\ savedHistory = FullHistory
    /\ InitWidget

\* The widget's fields and _LSTRUC.name become those of the record r.
setFields(txt, r) ==
    /\ text' = txt
    /\ status' = r.status
    /\ overlapsMembers' = r.overlapsMembers
    /\ structName' = r.structName
    /\ memberOff' = r.memberOff
    /\ memberType' = r.memberType
    /\ memberName' = r.memberName
    /\ hintText' = r.hintText
    /\ lastStruct' = r.lastStruct
    /\ hintShown' = r.overlapsMembers

\* inputTextChanged (main.py 392-408) on the text txt: validate, then show
\* the hint when overlapsMembers is set and hide it otherwise.
inputTextChanged(txt, w) == setFields(txt, validateParseInput(txt, db, w))

\* tryCursorAsStruct (main.py 76-80)
tryCursorAsStruct(cursor) ==
    IF Len(cursor) > 0 /\ get_struc_id(db, cursor) # BADADDR THEN cursor ELSE <<>>

\* tryCursorAsOffset (main.py 83-90)
tryCursorAsOffset(cursor) ==
    IF Len(cursor) > 0 /\ parseOffset(cursor).ok
    THEN strip(lstrip(cursor, {"0"}))
    ELSE <<>>

\* createQLineEdit (main.py 248-252): the text the line starts with.
startText(name, mem_off) ==
    IF Len(name) > 0
    THEN name \o SP \o (IF Len(mem_off) > 0 THEN mem_off \o SP ELSE <<>>)
    ELSE <<>>

initialText(cursor) ==
    startText(IF Len(tryCursorAsStruct(cursor)) > 0
              THEN tryCursorAsStruct(cursor) ELSE lastStruct,
              tryCursorAsOffset(cursor))

\* Structline.run (main.py 489-493): SQWidget() and show().
Open(limit) ==
    /\ ~isOpen
    /\ sessions < limit
    /\ \E cursor \in CursorTokens :
          /\ historyLines' = <<initialText(cursor)>> \o loadCurrHistory(savedHistory)
          /\ inputTextChanged(initialText(cursor), freshFields(lastStruct))
    /\ historyIdx' = 0
    /\ isOpen' = TRUE
    /\ sessions' = sessions + 1
    /\ lastEvent' = "open"
    /\ dbAtOpen' = db
    /\ savedAtOpen' = savedHistory
    /\ UNCHANGED <<db, savedHistory>>

\* The analyst edits the line: textChanged -> inputTextChanged.
TextChanged ==
    /\ isOpen
    /\ \E txt \in Texts : txt # text /\ inputTextChanged(txt, fields)
    /\ lastEvent' = "input"
    /\ UNCHANGED <<db, savedHistory, isOpen, historyLines, historyIdx, sessions,
                   dbAtOpen, savedAtOpen>>

\* eventFilter, Key_Up (main.py 436-440)
KeyUp ==
    /\ isOpen
    /\ Len(historyLines) > 0
    /\ LET idx == IF Len(historyLines) - 1 < historyIdx + 1
                  THEN Len(historyLines) - 1 ELSE historyIdx + 1
       IN  /\ historyIdx' = idx
           /\ inputTextChanged(historyLines[idx + 1], fields)
    /\ lastEvent' = "input"
    /\ UNCHANGED <<db, savedHistory, isOpen, historyLines, sessions, dbAtOpen, savedAtOpen>>

\* eventFilter, Key_Down (main.py 442-446)
KeyDown ==
    /\ isOpen
    /\ Len(historyLines) > 0
    /\ LET idx == IF historyIdx - 1 > 0 THEN historyIdx - 1 ELSE 0
       IN  /\ historyIdx' = idx
           /\ inputTextChanged(historyLines[idx + 1], fields)
    /\ lastEvent' = "input"
    /\ UNCHANGED <<db, savedHistory, isOpen, historyLines, sessions, dbAtOpen, savedAtOpen>>

\* eventFilter, Key_Return (main.py 424-429), with addStrucMember and close.
KeyReturn ==
    /\ isOpen
    /\ lastEvent' = "return"
    /\ IF commitAllowed(status)
       THEN /\ \E hostRejects \in BOOLEAN : db' = addStrucMember(db, fields, hostRejects)
            /\ lastStruct' = structName
            /\ historyLines' = cleanHistory([historyLines EXCEPT ![1] = text])
            /\ savedHistory' = saveHistory([historyLines EXCEPT ![1] = text], savedHistory)
            /\ hintShown' = FALSE
            /\ isOpen' = FALSE
       ELSE UNCHANGED <<db, lastStruct, historyLines, savedHistory, hintShown, isOpen>>
    /\ UNCHANGED <<text, historyIdx, status, overlapsMembers, structName, memberOff,
                   memberType, memberName, hintText, sessions, dbAtOpen, savedAtOpen>>

\* keyPressEvent, Key_Escape (main.py 410-418), with close.
KeyEscape ==
    /\ isOpen
    /\ lastEvent' = "escape"
    /\ historyLines' = cleanHistory(Tail(historyLines))
    /\ savedHistory' = saveHistory(Tail(historyLines), savedHistory)
    /\ lastStruct' = IF Len(text) = 0 \/ (Len(lastStruct) > 0 /\ ~contains(text, lastStruct))
                     THEN None ELSE lastStruct
    /\ hintShown' = FALSE
    /\ isOpen' = FALSE
    /\ UNCHANGED <<db, text, historyIdx, status, overlapsMembers, structName, memberOff,
                   memberType, memberName, hintText, sessions, dbAtOpen, savedAtOpen>>

Next ==
    \/ Open(MaxSessions)
    \/ TextChanged
    \/ KeyUp
    \/ KeyDown
    \/ KeyReturn
    \/ KeyEscape

Spec == Init /\ [][Next]_vars

NextFull ==
    \/ Open(MaxFullSessions)
    \/ TextChanged
    \/ KeyUp
    \/ KeyDown
    \/ KeyReturn
    \/ KeyEscape

SpecFull == InitFull /\ [][NextFull]_vars

\* ------------------------------------------------------------ properties

\* The widget was closed by a commit / by Escape.
committed == ~isOpen /\ lastEvent = "return"
cancelled == ~isOpen /\ lastEvent = "escape"

\* An input change was the last thing that happened to the open widget.
afterInputChange == isOpen /\ lastEvent \in {"open", "input"}

\* The members of a structure that occupy a byte of [off, off + size).
occupying(members, off, size) ==
    {m \in members : m.off < off + size /\ off < memberEnd(m)}

\* A set of members as the list of (offset, name) pairs in ascending offset order.
RECURSIVE byOffset(_)
byOffset(members) ==
    IF members = {} THEN <<>>
    ELSE LET first == CHOOSE m \in members : \A x \in members : m.off <= x.off
         IN  <<<<first.off, first.name>>>> \o byOffset(members \ {first})

membersOf(d, name) == IF name \in DOMAIN d THEN d[name] ELSE {}

\* Whether the line is rejected for its form: the token count, the offset,
\* the type and the member name.
lineRejected(tokens) ==
    \/ Len(tokens) < 2
    \/ Len(tokens) > 4
    \/ ~parseOffset(tokens[2]).ok
    \/ (Len(tokens) >= 3 /\ ~isTypeValid(tokens[3]))
    \/ (Len(tokens) = 4 /\ ~isValidMemberName(tokens[4]))

lineType(tokens) == IF Len(tokens) >= 3 THEN tokens[3] ELSE T_BYTE

statusOfLine(tokens, d) ==
    IF lineRejected(tokens) THEN INVALID
    ELSE IF occupying(membersOf(d, tokens[1]), parseOffset(tokens[2]).val,
                      hostTypeSize(lineType(tokens))) # {}
    THEN ALERT_MEMBER
    ELSE IF tokens[1] \notin DOMAIN d THEN ALERT_STRUCT
    ELSE VALID

\* C1: after validateParseInput the status is INVALID exactly when the line
\* has fewer than 2 or more than 4 tokens, its offset does not parse, its
\* type is not valid or its member name is no identifier; otherwise it is
\* ALERT_MEMBER when the new member's bytes overlap an existing member,
\* otherwise ALERT_STRUCT when the structure does not exist, otherwise VALID.
C1_StatusOfLine ==
    afterInputChange => status = statusOfLine(tokenize(text), db)

\* C3: for the structure, offset and size of an accepted line,
\* getOverlappedMemberNames returns exactly the members that occupy a byte
\* of [off, off + size), each once, in ascending offset order, each with the
\* offset at which it starts (the empty list when there is none).
C3_OverlappedMembers ==
    (afterInputChange /\ status # INVALID) =>
        getOverlappedMemberNames(db, structName, memberOff, hostTypeSize(memberType))
            = byOffset(occupying(membersOf(db, structName), memberOff,
                                 hostTypeSize(memberType)))

\* C4: whenever the status is not INVALID, the fields a commit uses are those
\* of the current text: structName is its first token, memberOff the value
\* of its second, memberType its third or _BYTE, memberName its fourth or
\* field_<offset in upper-case hex>.
C4_FieldsOfCurrentText ==
    ((isOpen \/ committed) /\ status # INVALID) =>
        /\ Len(tokenize(text)) \in 2..4
        /\ structName = tokenize(text)[1]
        /\ parseOffset(tokenize(text)[2]).ok
        /\ memberOff = parseOffset(tokenize(text)[2]).val
        /\ memberType = IF Len(tokenize(text)) >= 3 THEN tokenize(text)[3] ELSE T_BYTE
        /\ memberName = IF Len(tokenize(text)) = 4 THEN tokenize(text)[4]
                        ELSE FIELD_ \o formatX(memberOff)

\* A two-token line typed after a line that named a type and a member: the
\* type and the name are the defaults, not those of the earlier line.
C4_Witness ==
    /\ isOpen
    /\ lastEvent = "input"
    /\ status = ALERT_MEMBER
    /\ text = joinTokens(<< <<"S">>, <<"0">> >>)
    /\ structName = <<"S">>
    /\ memberOff = 0
    /\ memberType = T_BYTE
    /\ memberName = N_field_0
    /\ Len(hintText) = 1

\* The member a commit of the current fields is to leave in the structure.
newMembers ==
    {m \in membersOf(db, structName) : m.off = memberOff /\ m.type = memberType}

\* The members the structure had when the widget was opened that the
\* committed member's bytes do not touch.
untouched ==
    membersOf(dbAtOpen, structName)
        \ occupying(membersOf(dbAtOpen, structName), memberOff, hostTypeSize(memberType))

\* C2: after a commit of a line naming structure S, offset off and type T,
\* S exists and has a member of type T that starts at off; the member has
\* the requested name when no other member of S has it, and otherwise a name
\* that starts with the requested name and that no other member of S has.
C2_CommitAddsMember ==
    committed =>
        /\ structName \in DOMAIN db
        /\ \E m \in newMembers :
              /\ Cardinality({x \in db[structName] : x.name = m.name}) = 1
              /\ IF \E x \in untouched : x.name = memberName
                 THEN startswith(m.name, memberName \o <<"_">>)
                 ELSE m.name = memberName

\* C5: the history saved for the database holds no line twice and at most
\* HIST_LEN lines, and after a commit its first line is the committed line.
C5_HistoryBounded ==
    /\ Len(savedHistory) <= HIST_LEN
    /\ \A i, j \in 1..Len(savedHistory) : savedHistory[i] = savedHistory[j] => i = j
    /\ committed => (Len(savedHistory) > 0 /\ savedHistory[1] = text)

\* A line that was not in the full history was committed: the history still
\* holds HIST_LEN lines, the new one first.
C5_Witness ==
    /\ committed
    /\ savedAtOpen = FullHistory
    /\ \A k \in 1..HIST_LEN : FullHistory[k] # text
    /\ Len(savedHistory) = HIST_LEN
    /\ savedHistory[1] = text
    /\ savedHistory[HIST_LEN] = FullHistory[HIST_LEN - 1]

\* C6: Return pressed while the status is INVALID changes no structure and
\* no history line and leaves the widget open; a Return that closes the
\* widget finds the status of the current text to be VALID, ALERT_MEMBER or
\* ALERT_STRUCT.
C6_InvalidReturnIgnored ==
    [][(isOpen /\ lastEvent' = "return") =>
          /\ status = INVALID =>
                (db' = db /\ savedHistory' = savedHistory
                    /\ historyLines' = historyLines /\ isOpen')
          /\ ~isOpen' =>
                (/\ status \in {VALID, ALERT_MEMBER, ALERT_STRUCT}
                 /\ status = validateParseInput(text, db, fields).status
                 /\ ~lineRejected(tokenize(text)))]_vars

\* Return was pressed on a rejected line: the widget is still open, on the
\* database and the history it was opened with.
C6_Witness ==
    /\ isOpen
    /\ lastEvent = "return"
    /\ status = INVALID
    /\ lineRejected(tokenize(text))
    /\ Len(text) > 0
    /\ db = dbAtOpen
    /\ savedHistory = savedAtOpen

\* C7: a commit into an existing structure leaves every member whose bytes
\* lie outside [off, off + n) with its name, offset and type, adds nothing
\* but the new member, and changes no other structure, also when the
\* structure is expanded.
C7_OtherMembersKept ==
    (committed /\ structName \in DOMAIN dbAtOpen) =>
        /\ DOMAIN db = DOMAIN dbAtOpen
        /\ \A sn \in DOMAIN dbAtOpen : sn # structName => db[sn] = dbAtOpen[sn]
        /\ untouched \subseteq db[structName]
        /\ \A m \in db[structName] : m \in untouched \/ m \in newMembers
        /\ Cardinality(db[structName] \ untouched) <= 1

\* A commit removed the members under the new one and kept a member that an
\* earlier commit had put beyond the structure's end.
C7_Witness ==
    /\ committed
    /\ structName \in DOMAIN dbAtOpen
    /\ Cardinality(membersOf(dbAtOpen, structName) \ untouched) = 2
    /\ \E m \in untouched :
          /\ m.off = HexDigitValue("C")
          /\ m \in db[structName]
          /\ \A x \in membersOf(dbAtOpen, structName) : x # m => memberEnd(x) < m.off
    /\ newMembers # {}

\* C8: a session ended with Escape changes no structure and leaves the
\* saved history as it was when the widget was opened.
C8_CancelChangesNothing ==
    cancelled => (db = dbAtOpen /\ savedHistory = savedAtOpen)

\* C9: after every input change the hint is shown exactly when the status
\* is ALERT_MEMBER, and a shown hint lists the members the current input
\* overlaps.
C9_HintMatchesStatus ==
    afterInputChange =>
        /\ hintShown <=> status = ALERT_MEMBER
        /\ hintShown =>
              hintText =
                  [k \in 1..Len(getOverlappedMemberNames(
                                    db, structName, memberOff, hostTypeSize(memberType))) |->
                      hintLine(getOverlappedMemberNames(
                                   db, structName, memberOff, hostTypeSize(memberType))[k])]

\* C10: every accepted line has a non-negative member offset, and no member
\* of the database lies at a negative offset.
C10_OffsetNonNegative ==
    /\ (isOpen /\ status # INVALID) => memberOff >= 0
    /\ \A sn \in DOMAIN db : \A m \in db[sn] : m.off >= 0

====
